---- MODULE Spec2Model ----
(***************************************************************************)
(* Stock_News_Agent: the news store (utils/database.py), the summarizer    *)
(* wrapper (utils/llm_service.py), the ingest-then-enrich pipeline         *)
(* (utils/news_processor.py) and the HTML extractor                        *)
(* (utils/fetch_html_content.py).                                          *)
(***************************************************************************)
EXTENDS Integers, Sequences, FiniteSets, TLC

VARIABLES
    tableExists,      \* the 'news' table has been created in DATABASE_FILE
    rows,             \* the 'news' table, in ascending id order
    api_key,          \* LLMService.api_key
    pc,               \* position of process_and_summarize_news
    unsmarized_news,  \* the local list read by get_unsmarized_news
    idx,              \* position of the for loop over unsmarized_news
    op,               \* the last database / pipeline step that completed
    arg,              \* the arguments of the last call (news_items of save_news)
    before,           \* the table as it was when the last step began
    ret,              \* what the last call returned to its caller
    raised,           \* the exception that reached the caller, or NoError
    saved_count,      \* save_news's local counter, as printed at its end
    calls,            \* ids summarize_text was called for in the current run
    updates,          \* ids update_news_summary was called for in that run
    batch_symbol,     \* news_data['symbol'] of that run, as stamped
    handles,          \* sqlite3 connections that are open
    news_summaries,   \* the list get_news_by_date_range returned
    report_calls,     \* the lists generate_daily_report was called with
    report,           \* what create_daily_report returned
    conn_items,       \* per concurrent save_news call: its news_items
    conn_pos,         \* ... the position of its for loop
    conn_pending,     \* ... the rows it inserted and has not committed
    conn_open,        \* ... whether its connection is open
    write_lock,       \* the call whose transaction holds the write lock
    html_content,     \* the document last handed to parse_news_html
    parsed            \* what parse_news_html did with it

reportVars == <<news_summaries, report_calls, report>>
connVars == <<conn_items, conn_pos, conn_pending, conn_open, write_lock>>
storeVars == <<tableExists, rows, api_key, pc, unsmarized_news, idx, op, arg,
               before, ret, raised, saved_count, calls, updates,
               batch_symbol, handles, news_summaries, report_calls, report,
               conn_items, conn_pos, conn_pending, conn_open, write_lock>>
extractVars == <<html_content, parsed>>
vars == <<tableExists, rows, api_key, pc, unsmarized_news, idx, op, arg,
          before, ret, raised, saved_count, calls, updates, batch_symbol,
          handles, news_summaries, report_calls, report, conn_items,
          conn_pos, conn_pending, conn_open, write_lock, html_content, parsed>>

-----------------------------------------------------------------------------
(* Values *)

\* Python's None and SQL NULL, as the value of a text field
NULL == "<None>"
\* Values returned to a caller, tagged with their Python type.  None is what
\* a function without a return statement returns.
None == [type |-> "NoneType", value |-> 0]
IntValue(n) == [type |-> "int", value |-> n]
NoError == "<no exception>"

\* the longest batch handed to save_news / process_and_summarize_news
MaxBatch == 2

Min(a, b) == IF a < b THEN a ELSE b

\* Python's truthiness of an optional string: None and "" are falsy
Truthy(s) == s # NULL /\ s # ""

\* s[:n] on a string
Slice(s, n) == SubSeq(s, 1, Min(n, Len(s)))

IsSpace(c) == c \in {" ", "\n", "\t"}

RECURSIVE LStrip(_)
LStrip(s) ==
    IF Len(s) = 0 THEN s
    ELSE IF IsSpace(SubSeq(s, 1, 1)) THEN LStrip(SubSeq(s, 2, Len(s))) ELSE s

RECURSIVE RStrip(_)
RStrip(s) ==
    IF Len(s) = 0 THEN s
    ELSE IF IsSpace(SubSeq(s, Len(s), Len(s)))
         THEN RStrip(SubSeq(s, 1, Len(s) - 1)) ELSE s

\* str.strip()
Strip(s) == RStrip(LStrip(s))

-----------------------------------------------------------------------------
(* Raw news items: the dictionaries of news_data['news'].  A key that is   *)
(* absent reads as None through item.get().                                *)

Link1 == "http://example.com/aapl-news-1"
Link2 == "http://example.com/aapl-news-2"
Link3 == "http://example.com/goog-news-1"

RawItems ==
    { [title |-> "Apple Q3 Earnings Beat Estimates", source |-> "Reuters",
       published |-> "2025-08-02 10:00:00 UTC", link |-> Link1,
       content |-> "Apple Inc. today announced its third-quarter earnings.",
       symbol |-> NULL, bindable |-> TRUE],
      \* the same article fetched again, with other fields and its own symbol
      [title |-> "Apple Q3 Earnings (updated)", source |-> "Bloomberg",
       published |-> "2025-08-03 00:00:00 UTC", link |-> Link1,
       content |-> "Updated: Apple raised its guidance.",
       symbol |-> "GOOG", bindable |-> TRUE],
      \* an item without the optional content
      [title |-> "New iPhone Model Leaked", source |-> "TechCrunch",
       published |-> "2025-08-02 23:59:59 UTC", link |-> Link2,
       content |-> NULL, symbol |-> NULL, bindable |-> TRUE],
      \* an item without a link
      [title |-> "Untitled wire", source |-> NULL,
       published |-> NULL, link |-> NULL,
       content |-> "No link.", symbol |-> NULL, bindable |-> TRUE],
      \* an item one of whose values sqlite3 cannot bind (a list as content)
      [title |-> "Google Announces AI Breakthrough", source |-> "Bloomberg",
       published |-> "2025-08-02 12:00:00 UTC", link |-> Link3,
       content |-> "<list>", symbol |-> NULL, bindable |-> FALSE] }

Symbols == {"AAPL", "TSLA"}

\* CURRENT_TIMESTAMP at the time of an INSERT
Timestamps == {"2025-08-03 09:00:00"}

RECURSIVE SeqsUpTo(_, _)
SeqsUpTo(S, n) ==
    IF n = 0 THEN {<<>>}
    ELSE LET shorter == SeqsUpTo(S, n - 1)
         IN shorter \cup {Append(s, x) : s \in shorter, x \in S}

Batches == SeqsUpTo(RawItems, MaxBatch)

Range(s) == {s[i] : i \in DOMAIN s}

-----------------------------------------------------------------------------
(* utils/database.py *)

Links(rs) == {rs[i].link : i \in DOMAIN rs}

\* InsertOutcome with a schema whose link column is not UNIQUE
InsertOutcomeNoUnique(exists, rs, item) ==
    IF ~exists THEN "OperationalError"
    ELSE IF ~item.bindable THEN "ProgrammingError"
    ELSE IF item.symbol = NULL \/ item.title = NULL \/ item.link = NULL
         THEN "IntegrityError"
    ELSE "inserted"

\* The outcome of the INSERT statement of save_news for one item against the
\* table rs: the exception class it raises, or "inserted".  A value sqlite3
\* cannot bind raises ProgrammingError (InterfaceError before Python 3.11),
\* a NULL in a NOT NULL column or a stored link raises IntegrityError.
InsertOutcome(exists, rs, item) ==
    IF ~exists THEN "OperationalError"
    ELSE IF ~item.bindable THEN "ProgrammingError"
    ELSE IF item.symbol = NULL \/ item.title = NULL \/ item.link = NULL
         THEN "IntegrityError"
    ELSE IF item.link \in Links(rs) THEN "IntegrityError"
    ELSE "inserted"

\* id INTEGER PRIMARY KEY AUTOINCREMENT: one more than the largest id so far
NextId(rs) == IF rs = <<>> THEN 1 ELSE rs[Len(rs)].id + 1

NewRow(rs, item, now) ==
    [id |-> NextId(rs), symbol |-> item.symbol, title |-> item.title,
     content |-> item.content, summary |-> NULL, link |-> item.link,
     source |-> item.source, published_at |-> item.published,
     created_at |-> now]

\* SaveLoop with saved_count += 1 placed before the INSERT: attempts are
\* counted, not inserts
RECURSIVE SaveLoopCountsAttempts(_, _, _, _, _, _)
SaveLoopCountsAttempts(exists, rs, news_items, i, count, now) ==
    IF i > Len(news_items)
    THEN [rows |-> rs, saved_count |-> count, raised |-> NoError]
    ELSE IF InsertOutcome(exists, rs, news_items[i]) = "inserted"
         THEN SaveLoopCountsAttempts(exists,
                       Append(rs, NewRow(rs, news_items[i], now)),
                       news_items, i + 1, count + 1, now)
         ELSE SaveLoopCountsAttempts(exists, rs, news_items, i + 1,
                                     count + 1, now)

\* SaveLoop without the try/except around the INSERT: the first exception
\* ends the loop and reaches the caller
RECURSIVE SaveLoopUncaught(_, _, _, _, _, _)
SaveLoopUncaught(exists, rs, news_items, i, count, now) ==
    IF i > Len(news_items)
    THEN [rows |-> rs, saved_count |-> count, raised |-> NoError]
    ELSE IF InsertOutcome(exists, rs, news_items[i]) = "inserted"
         THEN SaveLoopUncaught(exists,
                       Append(rs, NewRow(rs, news_items[i], now)),
                       news_items, i + 1, count + 1, now)
         ELSE [rows |-> rs, saved_count |-> count,
               raised |-> InsertOutcome(exists, rs, news_items[i])]

\* SaveLoop whose statement is INSERT OR REPLACE: a candidate with a stored
\* link takes the place of the row that has it
RECURSIVE SaveLoopReplaces(_, _, _, _, _, _)
SaveLoopReplaces(exists, rs, news_items, i, count, now) ==
    IF i > Len(news_items)
    THEN [rows |-> rs, saved_count |-> count, raised |-> NoError]
    ELSE IF InsertOutcomeNoUnique(exists, rs, news_items[i]) = "inserted"
         THEN LET Other(row) == row.link # news_items[i].link
              IN SaveLoopReplaces(exists,
                     Append(SelectSeq(rs, Other), NewRow(rs, news_items[i], now)),
                     news_items, i + 1, count + 1, now)
         ELSE SaveLoopReplaces(exists, rs, news_items, i + 1, count, now)

\* The for loop of save_news from position i on: every exception of the
\* INSERT is caught inside the loop body and the loop goes on, so none
\* reaches the caller.
RECURSIVE SaveLoop(_, _, _, _, _, _)
SaveLoop(exists, rs, news_items, i, count, now) ==
    IF i > Len(news_items)
    THEN [rows |-> rs, saved_count |-> count, raised |-> NoError]
    ELSE IF InsertOutcome(exists, rs, news_items[i]) = "inserted"
         THEN SaveLoop(exists, Append(rs, NewRow(rs, news_items[i], now)),
                       news_items, i + 1, count + 1, now)
         ELSE SaveLoop(exists, rs, news_items, i + 1, count, now)

\* save_news that filters the batch against the links read before the loop
\* (read-then-insert) instead of relying on the constraint at each INSERT
RECURSIVE InsertAll(_, _, _, _)
InsertAll(rs, items, i, now) ==
    IF i > Len(items) THEN rs
    ELSE InsertAll(Append(rs, NewRow(rs, items[i], now)), items, i + 1, now)

FreshAtStart(exists, rs, news_items) ==
    LET Fresh(item) == /\ InsertOutcomeNoUnique(exists, rs, item) = "inserted"
                       /\ item.link \notin Links(rs)
    IN SelectSeq(news_items, Fresh)

save_news_read_then_insert(exists, rs, news_items, now) ==
    LET fresh == FreshAtStart(exists, rs, news_items)
    IN [rows |-> InsertAll(rs, fresh, 1, now), saved_count |-> Len(fresh),
        raised |-> NoError, ret |-> None]

\* save_news(news_items): the committed table, the counter that is printed,
\* and the value returned (the function has no return statement).  When the
\* loop raises, conn.commit() is not reached and nothing is saved.
save_news(exists, rs, news_items, now) ==
    LET r == SaveLoop(exists, rs, news_items, 1, 0, now)
    IN IF r.raised = NoError
       THEN [rows |-> r.rows, saved_count |-> r.saved_count,
             raised |-> NoError, ret |-> None]
       ELSE [rows |-> rs, saved_count |-> r.saved_count,
             raised |-> r.raised, ret |-> None]

\* IsUnsummarized for a WHERE clause that has summary IS NULL alone
IsNullSummary(row) == row.summary = NULL

\* WHERE summary IS NULL OR summary = ""
IsUnsummarized(row) == row.summary = NULL \/ row.summary = ""

\* get_unsmarized_news without its WHERE clause
get_all_news(rs) ==
    [i \in DOMAIN rs |->
        [id |-> rs[i].id, title |-> rs[i].title, content |-> rs[i].content]]

\* get_unsmarized_news(): SELECT id, title, content ... WHERE summary IS NULL
\* OR summary = "", in rowid order
get_unsmarized_news(rs) ==
    LET keep == SelectSeq(rs, IsUnsummarized)
    IN [i \in DOMAIN keep |->
           [id |-> keep[i].id, title |-> keep[i].title,
            content |-> keep[i].content]]

\* update_news_summary whose UPDATE has no WHERE clause
update_every_summary(rs, news_id, summary) ==
    [i \in DOMAIN rs |-> [rs[i] EXCEPT !.summary = summary]]

\* update_news_summary(news_id, summary): UPDATE news SET summary = ? WHERE id = ?
update_news_summary(rs, news_id, summary) ==
    [i \in DOMAIN rs |->
        IF rs[i].id = news_id THEN [rs[i] EXCEPT !.summary = summary]
        ELSE rs[i]]

\* cursor.execute of a statement on the news table (lines 65, 82, 102):
\* sqlite3 raises OperationalError, no such table, before init_db has run
StatementOutcome(exists) == IF exists THEN NoError ELSE "OperationalError"

\* Every function opens a connection with sqlite3.connect and closes it with
\* a conn.close() that follows its statements, outside any try/finally: the
\* close is reached only when nothing before it raised.  The number of
\* connections the call leaves open.
Unclosed(exc) == IF exc = NoError THEN 0 ELSE 1

\* the code point of the characters published_at values are written with
Ord(c) ==
    CASE c = " " -> 32 [] c = "-" -> 45
      [] c = "0" -> 48 [] c = "1" -> 49 [] c = "2" -> 50 [] c = "3" -> 51
      [] c = "4" -> 52 [] c = "5" -> 53 [] c = "6" -> 54 [] c = "7" -> 55
      [] c = "8" -> 56 [] c = "9" -> 57 [] c = ":" -> 58
      [] c = "C" -> 67 [] c = "T" -> 84 [] c = "U" -> 85

\* a <= b for two TEXT values under SQLite's BINARY collation: the first
\* differing character decides, a prefix sorts first
RECURSIVE TextLeq(_, _)
TextLeq(a, b) ==
    IF Len(a) = 0 THEN TRUE
    ELSE IF Len(b) = 0 THEN FALSE
    ELSE IF SubSeq(a, 1, 1) = SubSeq(b, 1, 1)
         THEN TextLeq(SubSeq(a, 2, Len(a)), SubSeq(b, 2, Len(b)))
    ELSE Ord(SubSeq(a, 1, 1)) < Ord(SubSeq(b, 1, 1))

\* Between with the upper bound left out of the range
BetweenExclusive(x, lo, hi) ==
    x # NULL /\ TextLeq(lo, x) /\ TextLeq(x, hi) /\ x # hi

\* x BETWEEN lo AND hi; NULL BETWEEN ... is NULL and selects no row
Between(x, lo, hi) ==
    x # NULL /\ TextLeq(lo, x) /\ TextLeq(x, hi)

\* MatchesSymbol for a query that never adds its AND symbol = ?
MatchesAnySymbol(row_symbol, symbol) == TRUE

\* lines 98-100: ' AND symbol = ?' is added only for a truthy symbol
MatchesSymbol(row_symbol, symbol) ==
    Truthy(symbol) => row_symbol = symbol

\* get_news_by_date_range(start_date_str, end_date_str, symbol): the rows
\* whose published_at is between the two texts built from the dates, in
\* rowid order, as {'title', 'summary'} dictionaries
get_news_by_date_range(rs, start_date_str, end_date_str, symbol) ==
    LET Selected(row) ==
            /\ Between(row.published_at, start_date_str \o " 00:00:00 UTC",
                       end_date_str \o " 23:59:59 UTC")
            /\ MatchesSymbol(row.symbol, symbol)
        keep == SelectSeq(rs, Selected)
    IN [i \in DOMAIN keep |->
           [title |-> keep[i].title, summary |-> keep[i].summary]]

\* the 'YYYY-MM-DD' dates a range is asked for
Days == {"2025-08-02", "2025-08-03"}

\* the symbol argument: None by default
QuerySymbols == {NULL} \cup Symbols

-----------------------------------------------------------------------------
(* utils/llm_service.py *)

ApiKeys == {NULL, "sk-test"}

\* What self.client.chat.completions.create does for one call: it returns a
\* message with text, one with whitespace only, or it raises.
LLMResponses ==
    { [raises |-> FALSE, content |-> " Summary: shares rose after earnings.\n"],
      [raises |-> FALSE, content |-> " \n"],
      [raises |-> TRUE, content |-> ""] }

\* LLMService.summarize_text(text) under the response the client gives.
\* text[:100] raises TypeError when text is None.
summarize_text(key, text, response) ==
    IF ~Truthy(key)
    THEN IF text = NULL
         THEN [raised |-> "TypeError", value |-> NULL]
         ELSE [raised |-> NoError,
               value |-> "Placeholder Summary: " \o Slice(text, 100) \o "..."]
    ELSE IF ~response.raises
         THEN [raised |-> NoError, value |-> Strip(response.content)]
         ELSE IF text = NULL
              THEN [raised |-> "TypeError", value |-> NULL]
              ELSE [raised |-> NoError,
                    value |-> "Error Summary: Failed to summarize due to LLM error. Original text start: "
                              \o Slice(text, 100) \o "..."]

\* LLMService.generate_daily_report(news_summaries) under the response the
\* client gives to the one request it sends (the numbered titles and
\* summaries of the list).  item.get and the f-strings raise for no value.
generate_daily_report(key, summaries, response) ==
    IF ~Truthy(key)
    THEN "Placeholder Daily Report: LLM API key not configured."
    ELSE IF summaries = <<>>
    THEN "No news summaries provided for daily report."
    ELSE IF ~response.raises THEN Strip(response.content)
    ELSE "Error Daily Report: Failed to generate due to LLM error. Summaries provided: "
         \o ToString(Len(summaries))

-----------------------------------------------------------------------------
(* utils/fetch_html_content.py: parse_news_html *)

\* JSON values as json.loads builds them, all of one record shape: t is the
\* Python type, s the text of a str, n the value of an int, items the
\* elements of a list or the entries of a dict in order; k is the key under
\* which the value sits when it is an entry of a dict.
JNull == [t |-> "NoneType", k |-> "", s |-> "", n |-> 0, items |-> <<>>]
JNum(n) == [t |-> "int", k |-> "", s |-> "", n |-> n, items |-> <<>>]
JStr(s) == [t |-> "str", k |-> "", s |-> s, n |-> 0, items |-> <<>>]
JList(items) == [t |-> "list", k |-> "", s |-> "", n |-> 0, items |-> items]
JMap(items) == [t |-> "dict", k |-> "", s |-> "", n |-> 0, items |-> items]
Entry(key, v) == [v EXCEPT !.k = key]
Plain(v) == [v EXCEPT !.k = ""]

\* the result of evaluating a Python expression: the exception it raises,
\* or NoError and its value
Val(v) == [exc |-> NoError, val |-> v]
Exc(e) == [exc |-> e, val |-> JNull]

\* bool(v) for a JSON value or a str
JTruthy(v) ==
    CASE v.t = "NoneType" -> FALSE
      [] v.t = "int" -> v.n # 0
      [] v.t = "str" -> v.s # ""
      [] OTHER -> v.items # <<>>

IsSubstring(a, b) ==
    \E i \in 1..(Len(b) - Len(a) + 1) : SubSeq(b, i, i + Len(a) - 1) = a

\* name in c, for a str name: [exc, val] with val a BOOLEAN
Contains(c, name) ==
    CASE c.t = "dict" ->
            [exc |-> NoError, val |-> \E i \in DOMAIN c.items : c.items[i].k = name]
      [] c.t = "list" ->
            [exc |-> NoError,
             val |-> \E i \in DOMAIN c.items :
                         c.items[i].t = "str" /\ c.items[i].s = name]
      [] c.t = "str" -> [exc |-> NoError, val |-> IsSubstring(name, c.s)]
      [] OTHER -> [exc |-> "TypeError", val |-> FALSE]

\* c[name], for a str name
GetItem(c, name) ==
    IF c.t = "dict"
    THEN IF \E i \in DOMAIN c.items : c.items[i].k = name
         THEN Val(Plain(c.items[CHOOSE i \in DOMAIN c.items : c.items[i].k = name]))
         ELSE Exc("KeyError")
    ELSE Exc("TypeError")

\* c[key] where key is what iterating over c itself produced
GetByIterated(c, key) ==
    CASE c.t = "dict" -> GetItem(c, key.s)
      [] c.t = "list" ->
            IF key.t # "int" THEN Exc("TypeError")
            ELSE IF key.n >= 0 /\ key.n < Len(c.items)
                 THEN Val(c.items[key.n + 1])
            ELSE IF key.n < 0 /\ -key.n <= Len(c.items)
                 THEN Val(c.items[Len(c.items) + key.n + 1])
            ELSE Exc("IndexError")
      [] OTHER -> Exc("TypeError")

\* the values a for loop over c binds: [exc, val] with val a sequence
Iterate(c) ==
    CASE c.t = "dict" ->
            [exc |-> NoError, val |-> [i \in DOMAIN c.items |-> JStr(c.items[i].k)]]
      [] c.t = "list" -> [exc |-> NoError, val |-> c.items]
      [] c.t = "str" ->
            [exc |-> NoError, val |-> [i \in 1..Len(c.s) |-> JStr(SubSeq(c.s, i, i))]]
      [] OTHER -> [exc |-> "TypeError", val |-> <<>>]

\* "".join(x for x in xs if isinstance(x, str))
RECURSIVE JoinStrs(_, _)
JoinStrs(xs, i) ==
    IF i > Len(xs) THEN ""
    ELSE (IF xs[i].t = "str" THEN xs[i].s ELSE "") \o JoinStrs(xs, i + 1)

\* "\n".join(lines)
RECURSIVE JoinLines(_, _)
JoinLines(lines, i) ==
    IF i > Len(lines) THEN ""
    ELSE IF i = Len(lines) THEN lines[i]
    ELSE lines[i] \o "\n" \o JoinLines(lines, i + 1)

\* The state of the parse: status says how control left the piece of code
\* ("next": fell through, "return": the return of line 91 ran, otherwise the
\* exception raised); title and content_paragraphs are the two locals.
PState(status, title, paras) ==
    [status |-> status, title |-> title, content_paragraphs |-> paras]

RECURSIVE ParagraphLoop(_, _, _, _), KeyLoop(_, _, _, _, _), ScriptLoop(_, _, _, _)

\* line 84: paragraph_node.get('type') == 'p' and 'children' in paragraph_node
IsParagraph(node) ==
    /\ \E i \in DOMAIN node.items :
          /\ node.items[i].k = "type"
          /\ node.items[i].t = "str"
          /\ node.items[i].s = "p"
    /\ \E i \in DOMAIN node.items : node.items[i].k = "children"

\* line 85: the join over what iterating the node's children gave
JoinIterated(it) ==
    IF it.exc # NoError THEN [exc |-> it.exc, val |-> ""]
    ELSE [exc |-> NoError, val |-> JoinStrs(it.val, 1)]

\* lines 84-85 for one node: the paragraph text, "" for a node that is
\* skipped; .get on a node that is no dict raises AttributeError
NodeParagraph(node) ==
    IF node.t # "dict" THEN [exc |-> "AttributeError", val |-> ""]
    ELSE IF ~IsParagraph(node) THEN [exc |-> NoError, val |-> ""]
    ELSE JoinIterated(Iterate(GetItem(node, "children").val))

\* lines 86-87: append a non-empty paragraph text and go on
AfterNode(nodes, i, title, paras, r) ==
    IF r.exc # NoError THEN PState(r.exc, title, paras)
    ELSE ParagraphLoop(nodes, i + 1, title,
                       IF r.val # "" THEN Append(paras, r.val) ELSE paras)

\* lines 82-87: the loop over the children of astDescription, from node i
ParagraphLoop(nodes, i, title, paras) ==
    IF i > Len(nodes) THEN PState("next", title, paras)
    ELSE AfterNode(nodes, i, title, paras, NodeParagraph(nodes[i]))

\* lines 90-94: the early return once the loop over the children is over
EarlyReturn(after) ==
    IF after.status # "next" THEN after
    ELSE IF JTruthy(after.title) /\ after.content_paragraphs # <<>>
         THEN IF after.title.t = "str"
              THEN PState("return", JStr(Strip(after.title.s)),
                          after.content_paragraphs)
              ELSE PState("AttributeError", after.title, after.content_paragraphs)
    ELSE after

\* line 82: for paragraph_node in <it>
OverChildren(title, paras, it) ==
    IF it.exc # NoError THEN PState(it.exc, title, paras)
    ELSE EarlyReturn(ParagraphLoop(it.val, 1, title, paras))

\* line 82: story_data['astDescription']['children']
ChildrenOf(title, paras, ch) ==
    IF ch.exc # NoError THEN PState(ch.exc, title, paras)
    ELSE OverChildren(title, paras, Iterate(ch.val))

\* line 81, second operand: 'children' in story_data['astDescription']
HasChildren(title, paras, ast, hasCh) ==
    IF hasCh.exc # NoError THEN PState(hasCh.exc, title, paras)
    ELSE IF ~hasCh.val THEN PState("next", title, paras)
    ELSE ChildrenOf(title, paras, GetItem(ast, "children"))

\* line 81: story_data['astDescription']
AstOf(title, paras, ast) ==
    IF ast.exc # NoError THEN PState(ast.exc, title, paras)
    ELSE HasChildren(title, paras, ast.val, Contains(ast.val, "children"))

\* line 81, first operand: 'astDescription' in story_data
HasAst(story_data, title, paras, hasAst) ==
    IF hasAst.exc # NoError THEN PState(hasAst.exc, title, paras)
    ELSE IF ~hasAst.val THEN PState("next", title, paras)
    ELSE AstOf(title, paras, GetItem(story_data, "astDescription"))

\* lines 81-94: the description tree of a story and the early return
Description(story_data, title, paras) ==
    HasAst(story_data, title, paras, Contains(story_data, "astDescription"))

\* line 78: title = story_data['title']
TitleOf(story_data, title, paras, t) ==
    IF t.exc # NoError THEN PState(t.exc, title, paras)
    ELSE Description(story_data, t.val, paras)

\* line 77: if 'title' in story_data
HasTitle(story_data, title, paras, hasTitle) ==
    IF hasTitle.exc # NoError THEN PState(hasTitle.exc, title, paras)
    ELSE IF ~hasTitle.val THEN Description(story_data, title, paras)
    ELSE TitleOf(story_data, title, paras, GetItem(story_data, "title"))

\* lines 74-94: one story
Story(story_data, title, paras) ==
    HasTitle(story_data, title, paras, Contains(story_data, "title"))

\* the loop over the keys goes on after a story that did not return or raise
AfterStory(data, keys, i, after) ==
    IF after.status # "next" THEN after
    ELSE KeyLoop(data, keys, i + 1, after.title, after.content_paragraphs)

\* line 73: isinstance(data[key], dict) and 'story' in data[key]
KeyValue(data, keys, i, title, paras, v) ==
    IF v.exc # NoError THEN PState(v.exc, title, paras)
    ELSE IF ~(v.val.t = "dict" /\ Contains(v.val, "story").val)
         THEN KeyLoop(data, keys, i + 1, title, paras)
    ELSE AfterStory(data, keys, i, Story(GetItem(v.val, "story").val, title, paras))

\* lines 72-94: the loop over the keys of data, from key i
KeyLoop(data, keys, i, title, paras) ==
    IF i > Len(keys) THEN PState("next", title, paras)
    ELSE KeyValue(data, keys, i, title, paras, GetByIterated(data, keys[i]))

\* line 72: for key in data
OverKeys(data, title, paras, keys) ==
    IF keys.exc # NoError THEN PState(keys.exc, title, paras)
    ELSE KeyLoop(data, keys.val, 1, title, paras)

\* lines 67-94: the body of the try for one script tag.  script.string is
\* None for a tag without one text child, and json.loads(None) raises
\* TypeError.
ScriptBody(script, title, paras) ==
    CASE script.string = "none" -> PState("TypeError", title, paras)
      [] script.string = "invalid" -> PState("JSONDecodeError", title, paras)
      [] OTHER -> OverKeys(script.data, title, paras, Iterate(script.data))

\* except (json.JSONDecodeError, TypeError, KeyError): continue
Caught == {"JSONDecodeError", "TypeError", "KeyError"}

\* lines 95-97: a caught exception goes on to the next tag with the locals
\* as they are; any other exception leaves the function
AfterScript(scripts, i, after) ==
    IF after.status \in Caught \cup {"next"}
    THEN ScriptLoop(scripts, i + 1, after.title, after.content_paragraphs)
    ELSE after

\* lines 66-97: the loop over the script tags, from tag i
ScriptLoop(scripts, i, title, paras) ==
    IF i > Len(scripts) THEN PState("next", title, paras)
    ELSE AfterScript(scripts, i, ScriptBody(scripts[i], title, paras))

\* soup.find('h1', class_=cls): the first h1 of that class, 0 when none
FindH1(h1s, cls) ==
    IF \E i \in DOMAIN h1s : h1s[i].class = cls
    THEN CHOOSE i \in DOMAIN h1s :
             /\ h1s[i].class = cls
             /\ \A j \in 1..(i - 1) : h1s[j].class # cls
    ELSE 0

\* lines 104-108: the h1 the three soup.find calls settle on, 0 when none
TitleTag(h1s) ==
    IF FindH1(h1s, "title-KX2tCBZq") # 0 THEN FindH1(h1s, "title-KX2tCBZq")
    ELSE IF FindH1(h1s, "tv-news-article__title") # 0
         THEN FindH1(h1s, "tv-news-article__title")
    ELSE IF h1s # <<>> THEN 1
    ELSE 0

\* lines 117-121: append the non-blank stripped texts of the <p> tags
RECURSIVE BodyParagraphs(_, _, _)
BodyParagraphs(ps, i, paras) ==
    IF i > Len(ps) THEN paras
    ELSE BodyParagraphs(ps, i + 1,
             IF Strip(ps[i]) # "" THEN Append(paras, Strip(ps[i])) ELSE paras)

NoContent == "No readable content found on this page after trying all methods."

\* the value parse_news_html returns or the exception it raises; tier tells
\* which return statement ran: 0 line 56, 1 line 91, 2 lines 125 and 130
Result(title, content, tier) ==
    [raised |-> NoError, title |-> title, content |-> content, tier |-> tier]

\* lines 109-110: the title after the soup.find calls
FallbackTitle(h1s, title, tag) ==
    IF tag # 0 THEN JStr(Strip(h1s[tag].text)) ELSE title

\* lines 114-121: content_paragraphs after the content container
FallbackParagraphs(body, paras) ==
    IF body.present THEN BodyParagraphs(body.paragraphs, 1, paras) ELSE paras

\* lines 124-133: the two returns of the fallback
FallbackResult(title, paras) ==
    IF paras = <<>>
    THEN Result(IF JTruthy(title) THEN title ELSE JStr("No Title Found"),
                NoContent, 2)
    ELSE Result(title, JoinLines(paras, 1), 2)

\* lines 103-133: the fallback, entered with the locals as tier 1 left them
Fallback(doc, title, paras) ==
    FallbackResult(FallbackTitle(doc.h1s, title, TitleTag(doc.h1s)),
                   FallbackParagraphs(doc.body, paras))

\* lines 91-94 and 99-133: what follows the loop over the script tags
AfterTier1(doc, t1) ==
    CASE t1.status = "return" ->
            Result(t1.title, JoinLines(t1.content_paragraphs, 1), 1)
      [] t1.status = "next" -> Fallback(doc, t1.title, t1.content_paragraphs)
      [] OTHER ->
            [raised |-> t1.status, title |-> JStr(""), content |-> "", tier |-> 1]

parse_news_html(doc) ==
    IF doc.empty
    THEN Result(JStr("Error"), "Empty HTML content provided.", 0)
    ELSE AfterTier1(doc, ScriptLoop(doc.scripts, 1, JStr(""), <<>>))

-----------------------------------------------------------------------------
(* Documents: what BeautifulSoup finds in html_content.  scripts are the    *)
(* <script type="application/prs.init-data+json"> tags in document order,   *)
(* h1s the <h1> tags with their class, body the first                       *)
(* <div class="body-KX2tCBZq"> with the texts of the <p> tags inside it.    *)

\* the most script tags of that type in one document
MaxScripts == 2

Json(data) == [string |-> "json", data |-> data]
InvalidJson == [string |-> "invalid", data |-> JNull]
\* <script ...></script>: script.string is None
EmptyScript == [string |-> "none", data |-> JNull]

\* {"type": "p", "children": [text]}
P(text) == JMap(<<Entry("type", JStr("p")), Entry("children", JList(<<JStr(text)>>))>>)

AstDescription(nodes) == Entry("astDescription", JMap(<<Entry("children", JList(nodes))>>))

\* {"<key>": {"story": story}}
WithStory(story) == Json(JMap(<<Entry("$news", JMap(<<Entry("story", story)>>))>>))

ScriptTags ==
    { InvalidJson,
      EmptyScript,
      \* title and paragraphs
      WithStory(JMap(<<Entry("title", JStr("T")), AstDescription(<<P("p1"), P("p2")>>)>>)),
      WithStory(JMap(<<Entry("title", JStr(" Second story ")), AstDescription(<<P("q1")>>)>>)),
      \* paragraphs without a title
      WithStory(JMap(<<AstDescription(<<P("n1")>>)>>)),
      \* a title without a description tree
      WithStory(JMap(<<Entry("title", JStr("Title only"))>>)),
      \* an empty title
      WithStory(JMap(<<Entry("title", JStr("")), AstDescription(<<P("e1")>>)>>)),
      \* a title that is not a string
      WithStory(JMap(<<Entry("title", JNum(5)), AstDescription(<<P("m1")>>)>>)),
      \* a description child that is not a mapping
      WithStory(JMap(<<Entry("title", JStr("T4")), AstDescription(<<P("s1"), JStr("text")>>)>>)),
      \* a story that is not a mapping
      WithStory(JStr("subtitle")),
      \* a top level that is not a mapping
      Json(JList(<<JNum(5)>>)),
      Json(JNum(7)) }

H1Choices ==
    { <<>>,
      <<[class |-> "", text |-> " Plain heading "]>>,
      <<[class |-> "", text |-> "Plain heading"],
        [class |-> "tv-news-article__title", text |-> "Generic title"],
        [class |-> "title-KX2tCBZq", text |-> "Specific title"]>> }

BodyChoices ==
    { [present |-> FALSE, paragraphs |-> <<>>],
      [present |-> TRUE, paragraphs |-> <<>>],
      [present |-> TRUE,
       paragraphs |-> <<"First paragraph.", "  ", " Second paragraph. ">>] }

\* html_content = ""
EmptyHtml ==
    [empty |-> TRUE, scripts |-> <<>>, h1s |-> <<>>,
     body |-> [present |-> FALSE, paragraphs |-> <<>>]]

Documents ==
    {EmptyHtml} \cup
    { [empty |-> FALSE, scripts |-> ss, h1s |-> h, body |-> b] :
        ss \in SeqsUpTo(ScriptTags, MaxScripts), h \in H1Choices, b \in BodyChoices }

\* parse_news_html has not been called
NotParsed == [raised |-> NoError, title |-> JStr(""), content |-> "", tier |-> -1]

-----------------------------------------------------------------------------
(* utils/news_processor.py *)

\* Stamp that keeps the symbol an item came with
StampMissing(news, symbol) ==
    [i \in DOMAIN news |->
        IF news[i].symbol = NULL THEN [news[i] EXCEPT !.symbol = symbol]
        ELSE news[i]]

\* item['symbol'] = symbol for every item of news_data['news']
Stamp(news, symbol) == [i \in DOMAIN news |-> [news[i] EXCEPT !.symbol = symbol]]

\* news_data.get('symbol', 'UNKNOWN')
BatchSymbols == Symbols \cup {"UNKNOWN"}

\* line 47: the text returned when the query gave nothing
NoSummariesFound(target_date_str, symbol) ==
    "No news summaries found for " \o target_date_str \o " (Symbol: "
    \o (IF Truthy(symbol) THEN symbol ELSE "All") \o ") to generate a report."

\* lines 49-50: the list is handed to generate_daily_report
Generated(key, summaries, response) ==
    [news_summaries |-> summaries,
     report_calls |-> <<summaries>>,
     report |-> generate_daily_report(key, summaries, response)]

\* lines 46-50: what follows the query, with the list it gave
AfterQuery(key, target_date_str, symbol, response, summaries) ==
    IF summaries = <<>>
    THEN [news_summaries |-> <<>>,
          report_calls |-> <<>>,
          report |-> NoSummariesFound(target_date_str, symbol)]
    ELSE Generated(key, summaries, response)

\* create_daily_report that hands the list to generate_daily_report without
\* looking whether it is empty
create_daily_report_unguarded(key, rs, target_date_str, symbol, response) ==
    Generated(key,
        get_news_by_date_range(rs, target_date_str, target_date_str, symbol),
        response)

\* NewsProcessor.create_daily_report(target_date_str, symbol): the list it
\* read, the lists it called generate_daily_report with, and what it returns
create_daily_report(key, rs, target_date_str, symbol, response) ==
    AfterQuery(key, target_date_str, symbol, response,
        get_news_by_date_range(rs, target_date_str, target_date_str, symbol))

\* no call is in progress and the caller holds no result of an earlier one
Idle == pc = "idle"

\* the save_news calls that run at the same time, each in a process of its
\* own with a connection of its own to DATABASE_FILE
Procs == {"A", "B"}
NoLock == "none"

\* no such calls are under way
NoConcurrentCalls ==
    /\ conn_items = [p \in Procs |-> <<>>]
    /\ conn_pos = [p \in Procs |-> 0]
    /\ conn_pending = [p \in Procs |-> <<>>]
    /\ conn_open = [p \in Procs |-> FALSE]
    /\ write_lock = NoLock

Init ==
    /\ tableExists = FALSE
    /\ rows = <<>>
    /\ api_key \in ApiKeys
    /\ pc = "idle"
    /\ unsmarized_news = <<>>
    /\ idx = 0
    /\ op = "none"
    /\ arg = <<>>
    /\ before = <<>>
    /\ ret = None
    /\ raised = NoError
    /\ saved_count = 0
    /\ calls = <<>>
    /\ updates = <<>>
    /\ batch_symbol = NULL
    /\ handles = 0
    /\ news_summaries = <<>>
    /\ report_calls = <<>>
    /\ report = NULL
    /\ NoConcurrentCalls
    /\ html_content = EmptyHtml
    /\ parsed = NotParsed

\* init_db(), also run by NewsProcessor.__init__
InitDb ==
    /\ Idle
    /\ tableExists' = TRUE
    /\ op' = "init_db"
    /\ pc' = "returned"
    /\ before' = rows
    /\ ret' = None
    /\ raised' = NoError
    /\ unsmarized_news' = <<>>
    /\ idx' = 0
    /\ calls' = <<>>
    /\ handles' = handles + Unclosed(raised')
    /\ UNCHANGED <<rows, api_key, arg, saved_count, html_content, parsed>>
    /\ UNCHANGED <<updates, batch_symbol, reportVars>>
    /\ UNCHANGED connVars

\* a direct call of save_news(news_items)
SaveNews ==
    /\ Idle
    /\ \E news_items \in Batches, now \in Timestamps :
          LET r == save_news(tableExists, rows, news_items, now)
          IN /\ rows' = r.rows
             /\ saved_count' = r.saved_count
             /\ ret' = r.ret
             /\ raised' = r.raised
             /\ arg' = news_items
    /\ op' = "save_news"
    /\ pc' = "returned"
    /\ before' = rows
    /\ unsmarized_news' = <<>>
    /\ idx' = 0
    /\ calls' = <<>>
    /\ handles' = handles + Unclosed(raised')
    /\ UNCHANGED <<tableExists, api_key, html_content, parsed>>
    /\ UNCHANGED <<updates, batch_symbol, reportVars>>
    /\ UNCHANGED connVars

SummaryInputs == {"", "Manual summary."}

\* a direct call of get_unsmarized_news()
GetUnsmarizedNews ==
    /\ Idle
    /\ unsmarized_news' = IF tableExists THEN get_unsmarized_news(rows)
                          ELSE <<>>
    /\ op' = "get_unsmarized_news"
    /\ raised' = StatementOutcome(tableExists)
    /\ pc' = IF raised' = NoError THEN "returned" ELSE "raised"
    /\ before' = rows
    /\ handles' = handles + Unclosed(raised')
    /\ UNCHANGED <<tableExists, rows, api_key, idx, arg, ret, saved_count,
                   calls, html_content, parsed>>
    /\ UNCHANGED <<updates, batch_symbol, reportVars>>
    /\ UNCHANGED connVars

\* a direct call of update_news_summary(news_id, summary)
UpdateNewsSummary ==
    /\ Idle
    /\ \E news_id \in 1..(Len(rows) + 1), summary \in SummaryInputs :
          /\ rows' = IF tableExists
                     THEN update_news_summary(rows, news_id, summary)
                     ELSE rows
          /\ arg' = <<news_id, summary>>
    /\ op' = "update_news_summary"
    /\ raised' = StatementOutcome(tableExists)
    /\ pc' = IF raised' = NoError THEN "returned" ELSE "raised"
    /\ before' = rows
    /\ ret' = None
    /\ unsmarized_news' = <<>>
    /\ idx' = 0
    /\ calls' = <<>>
    /\ handles' = handles + Unclosed(raised')
    /\ UNCHANGED <<tableExists, api_key, saved_count, html_content, parsed>>
    /\ UNCHANGED <<updates, batch_symbol, reportVars>>
    /\ UNCHANGED connVars

\* a direct call of get_news_by_date_range(start_date_str, end_date_str, symbol)
GetNewsByDateRange ==
    /\ Idle
    /\ \E start_date_str \in Days, end_date_str \in Days,
          symbol \in QuerySymbols :
          /\ news_summaries' =
                 IF tableExists
                 THEN get_news_by_date_range(rows, start_date_str,
                                             end_date_str, symbol)
                 ELSE <<>>
          /\ arg' = <<start_date_str, end_date_str, symbol>>
    /\ op' = "get_news_by_date_range"
    /\ raised' = StatementOutcome(tableExists)
    /\ pc' = IF raised' = NoError THEN "returned" ELSE "raised"
    /\ before' = rows
    /\ handles' = handles + Unclosed(raised')
    /\ UNCHANGED <<tableExists, rows, api_key, unsmarized_news, idx, ret,
                   saved_count, calls, html_content, parsed>>
    /\ UNCHANGED <<updates, batch_symbol, report_calls, report>>
    /\ UNCHANGED connVars

\* a call of create_daily_report(target_date_str, symbol) on a NewsProcessor
CreateDailyReport ==
    /\ Idle
    /\ tableExists
    /\ \E target_date_str \in Days, symbol \in QuerySymbols,
          response \in LLMResponses :
          LET r == create_daily_report(api_key, rows, target_date_str,
                                       symbol, response)
          IN /\ news_summaries' = r.news_summaries
             /\ report_calls' = r.report_calls
             /\ report' = r.report
             /\ arg' = <<target_date_str, symbol>>
    /\ op' = "create_daily_report"
    /\ raised' = StatementOutcome(tableExists)
    /\ pc' = "returned"
    /\ before' = rows
    /\ handles' = handles + Unclosed(raised')
    /\ UNCHANGED <<tableExists, rows, api_key, unsmarized_news, idx, ret,
                   saved_count, calls, html_content, parsed>>
    /\ UNCHANGED <<updates, batch_symbol>>
    /\ UNCHANGED connVars

\* process_and_summarize_news, lines 16-26: stamp the batch and save it
Ingest ==
    /\ Idle
    /\ tableExists
    /\ \E news \in Batches, symbol \in BatchSymbols, now \in Timestamps :
          LET news_items_for_db == Stamp(news, symbol)
              r == save_news(tableExists, rows, news_items_for_db, now)
          IN /\ batch_symbol' = symbol
             /\ IF news_items_for_db # <<>>
                THEN /\ rows' = r.rows
                     /\ saved_count' = r.saved_count
                     /\ arg' = news_items_for_db
                     /\ op' = "save_news"
                     /\ ret' = r.ret
                     /\ raised' = r.raised
                     /\ pc' = IF r.raised = NoError THEN "ingested" ELSE "raised"
                ELSE /\ UNCHANGED <<rows, saved_count>>
                     /\ arg' = <<>>
                     /\ op' = "no_save"
                     /\ ret' = None
                     /\ raised' = NoError
                     /\ pc' = "ingested"
    /\ before' = rows
    /\ unsmarized_news' = <<>>
    /\ idx' = 0
    /\ calls' = <<>>
    /\ updates' = <<>>
    /\ handles' = handles + Unclosed(raised')
    /\ UNCHANGED <<tableExists, api_key, html_content, parsed, reportVars>>
    /\ UNCHANGED connVars

\* ListBacklog of a run whose enrich phase is skipped when there was nothing
\* to save
ListBacklogAfterSaveOnly ==
    /\ pc = "ingested"
    /\ unsmarized_news' = IF op = "no_save" THEN <<>>
                          ELSE get_unsmarized_news(rows)
    /\ IF unsmarized_news' # <<>>
       THEN pc' = "enrich" /\ idx' = 1
       ELSE pc' = "done" /\ idx' = 0
    /\ op' = "get_unsmarized_news"
    /\ before' = rows
    /\ handles' = handles + Unclosed(StatementOutcome(tableExists))
    /\ UNCHANGED <<tableExists, rows, api_key, arg, ret, raised, saved_count,
                   calls, html_content, parsed>>
    /\ UNCHANGED <<updates, batch_symbol, reportVars>>
    /\ UNCHANGED connVars

\* process_and_summarize_news, lines 29-31 and 35-36: read the backlog
ListBacklog ==
    /\ pc = "ingested"
    /\ unsmarized_news' = get_unsmarized_news(rows)
    /\ IF unsmarized_news' # <<>>
       THEN pc' = "enrich" /\ idx' = 1
       ELSE pc' = "done" /\ idx' = 0
    /\ op' = "get_unsmarized_news"
    /\ before' = rows
    /\ handles' = handles + Unclosed(StatementOutcome(tableExists))
    /\ UNCHANGED <<tableExists, rows, api_key, arg, ret, raised, saved_count,
                   calls, html_content, parsed>>
    /\ UNCHANGED <<updates, batch_symbol, reportVars>>
    /\ UNCHANGED connVars

\* process_and_summarize_news, lines 32-34: one iteration of the loop
Summarize ==
    /\ pc = "enrich"
    /\ \E response \in LLMResponses :
          LET news_item == unsmarized_news[idx]
              s == summarize_text(api_key, news_item.content, response)
          IN /\ calls' = Append(calls, news_item.id)
             /\ before' = rows
             /\ IF s.raised # NoError
                THEN /\ raised' = s.raised
                     /\ pc' = "raised"
                     /\ op' = "summarize_text"
                     /\ UNCHANGED <<rows, idx, updates, handles>>
                ELSE /\ rows' = update_news_summary(rows, news_item.id, s.value)
                     /\ updates' = Append(updates, news_item.id)
                     /\ handles' = handles + Unclosed(StatementOutcome(tableExists))
                     /\ op' = "update_news_summary"
                     /\ idx' = idx + 1
                     /\ pc' = IF idx = Len(unsmarized_news) THEN "done" ELSE "enrich"
                     /\ UNCHANGED raised
    /\ UNCHANGED <<tableExists, api_key, unsmarized_news, arg, ret,
                   saved_count, html_content, parsed>>
    /\ UNCHANGED <<batch_symbol, reportVars>>
    /\ UNCHANGED connVars

\* The caller takes back control after a call returned or raised: the
\* locals of the call are gone, the table and the configuration stay.  A
\* connection the call left open is closed when its frame is collected.
Return ==
    /\ pc \in {"returned", "done", "raised"}
    /\ pc' = "idle"
    /\ unsmarized_news' = <<>>
    /\ idx' = 0
    /\ op' = "none"
    /\ arg' = <<>>
    /\ before' = <<>>
    /\ ret' = None
    /\ raised' = NoError
    /\ saved_count' = 0
    /\ calls' = <<>>
    /\ updates' = <<>>
    /\ batch_symbol' = NULL
    /\ handles' = 0
    /\ news_summaries' = <<>>
    /\ report_calls' = <<>>
    /\ report' = NULL
    /\ UNCHANGED <<tableExists, rows, api_key, html_content, parsed>>
    /\ UNCHANGED connVars

Next ==
    \/ InitDb
    \/ SaveNews
    \/ GetUnsmarizedNews
    \/ UpdateNewsSummary
    \/ GetNewsByDateRange
    \/ CreateDailyReport
    \/ Ingest
    \/ ListBacklog
    \/ Summarize
    \/ Return

Spec == Init /\ [][Next]_vars

\* The pipeline alone: a NewsProcessor has been constructed (its __init__
\* ran init_db) and only process_and_summarize_news is called.
InitProcessor ==
    /\ tableExists = TRUE
    /\ rows = <<>>
    /\ api_key \in ApiKeys
    /\ pc = "idle"
    /\ unsmarized_news = <<>>
    /\ idx = 0
    /\ op = "none"
    /\ arg = <<>>
    /\ before = <<>>
    /\ ret = None
    /\ raised = NoError
    /\ saved_count = 0
    /\ calls = <<>>
    /\ updates = <<>>
    /\ batch_symbol = NULL
    /\ handles = 0
    /\ news_summaries = <<>>
    /\ report_calls = <<>>
    /\ report = NULL
    /\ NoConcurrentCalls
    /\ html_content = EmptyHtml
    /\ parsed = NotParsed

NextPipeline ==
    \/ Ingest
    \/ ListBacklog
    \/ Summarize
    \/ Return

SpecPipeline == InitProcessor /\ [][NextPipeline]_vars

\* The extractor alone: a document is at hand and parse_news_html is called
\* on it.
InitExtract ==
    /\ tableExists = FALSE
    /\ rows = <<>>
    /\ api_key = NULL
    /\ pc = "idle"
    /\ unsmarized_news = <<>>
    /\ idx = 0
    /\ op = "none"
    /\ arg = <<>>
    /\ before = <<>>
    /\ ret = None
    /\ raised = NoError
    /\ saved_count = 0
    /\ calls = <<>>
    /\ updates = <<>>
    /\ batch_symbol = NULL
    /\ handles = 0
    /\ news_summaries = <<>>
    /\ report_calls = <<>>
    /\ report = NULL
    /\ NoConcurrentCalls
    /\ html_content \in Documents
    /\ parsed = NotParsed

\* a call of parse_news_html(html_content)
ParseNewsHtml ==
    /\ parsed = NotParsed
    /\ parsed' = parse_news_html(html_content)
    /\ UNCHANGED html_content
    /\ UNCHANGED storeVars

NextExtract == ParseNewsHtml

SpecExtract == InitExtract /\ [][NextExtract]_vars

-----------------------------------------------------------------------------
(* Two save_news calls at the same time, as made by the ingest phases of    *)
(* two runs in two processes.  Each has its own connection; sqlite3 opens a *)
(* transaction before the first INSERT of a connection, the statement takes *)
(* the write lock of the database file and the transaction keeps it, also   *)
(* when the statement fails on a constraint, until conn.commit().  An       *)
(* INSERT that finds the lock held by the other connection waits for it,    *)
(* and raises OperationalError (database is locked) when the connection's   *)
(* timeout runs out first.                                                  *)

\* the symbol each of the two runs stamps its batch with
SymbolOf(p) == IF p = "A" THEN "AAPL" ELSE "TSLA"

\* Seen for a check made against what the caller read when it connected (the
\* empty table) and inserted itself
SeenAtConnect(committed, pending) == pending

\* the rows the UNIQUE index of link is checked against when a connection
\* runs an INSERT: the committed table and the rows of its own transaction
Seen(committed, pending) == committed \o pending

InitConcurrent ==
    /\ tableExists = TRUE
    /\ rows = <<>>
    /\ api_key = NULL
    /\ pc = "idle"
    /\ unsmarized_news = <<>>
    /\ idx = 0
    /\ op = "none"
    /\ arg = <<>>
    /\ before = <<>>
    /\ ret = None
    /\ raised = NoError
    /\ saved_count = 0
    /\ calls = <<>>
    /\ updates = <<>>
    /\ batch_symbol = NULL
    /\ handles = Cardinality(Procs)
    /\ news_summaries = <<>>
    /\ report_calls = <<>>
    /\ report = NULL
    /\ \E a \in Batches, b \in Batches :
          conn_items = [p \in Procs |-> IF p = "A" THEN Stamp(a, SymbolOf(p))
                                        ELSE Stamp(b, SymbolOf(p))]
    /\ conn_pos = [p \in Procs |-> 1]
    /\ conn_pending = [p \in Procs |-> <<>>]
    /\ conn_open = [p \in Procs |-> TRUE]
    /\ write_lock = NoLock
    /\ html_content = EmptyHtml
    /\ parsed = NotParsed

\* the loop of call p has an item left
InLoop(p) == conn_open[p] /\ conn_pos[p] <= Len(conn_items[p])

\* One iteration of the for loop of call p whose INSERT runs: it has the
\* write lock or takes it.  A value that cannot be bound raises before the
\* statement runs and takes no lock.  Every exception is caught at lines
\* 51-54.
Insert(p) ==
    /\ InLoop(p)
    /\ \E now \in Timestamps :
          LET item == conn_items[p][conn_pos[p]]
              outcome == InsertOutcome(tableExists,
                             Seen(rows, conn_pending[p]), item)
          IN IF ~item.bindable
             THEN UNCHANGED <<conn_pending, write_lock>>
             ELSE /\ write_lock \in {NoLock, p}
                  /\ write_lock' = p
                  /\ conn_pending' =
                         IF outcome = "inserted"
                         THEN [conn_pending EXCEPT ![p] =
                                  Append(@, NewRow(rows \o @, item, now))]
                         ELSE conn_pending
    /\ conn_pos' = [conn_pos EXCEPT ![p] = @ + 1]
    /\ UNCHANGED <<tableExists, rows, api_key, pc, unsmarized_news, idx, op,
                   arg, before, ret, raised, saved_count, calls, updates,
                   batch_symbol, handles, reportVars, conn_items, conn_open,
                   html_content, parsed>>

\* One iteration of the for loop of call p whose INSERT finds the write lock
\* held by the other call until its timeout: OperationalError, caught at
\* line 53, and the item is not saved.
InsertLocked(p) ==
    /\ InLoop(p)
    /\ conn_items[p][conn_pos[p]].bindable
    /\ write_lock \notin {NoLock, p}
    /\ conn_pos' = [conn_pos EXCEPT ![p] = @ + 1]
    /\ UNCHANGED <<tableExists, rows, api_key, pc, unsmarized_news, idx, op,
                   arg, before, ret, raised, saved_count, calls, updates,
                   batch_symbol, handles, reportVars, conn_items,
                   conn_pending, conn_open, write_lock, html_content, parsed>>

\* lines 55-56 of call p: conn.commit() makes its rows part of the table and
\* gives up the write lock, conn.close() closes its connection
Commit(p) ==
    /\ conn_open[p]
    /\ conn_pos[p] > Len(conn_items[p])
    /\ rows' = rows \o conn_pending[p]
    /\ conn_pending' = [conn_pending EXCEPT ![p] = <<>>]
    /\ write_lock' = IF write_lock = p THEN NoLock ELSE write_lock
    /\ conn_open' = [conn_open EXCEPT ![p] = FALSE]
    /\ handles' = handles - 1
    /\ UNCHANGED <<tableExists, api_key, pc, unsmarized_news, idx, op, arg,
                   before, ret, raised, saved_count, calls, updates,
                   batch_symbol, reportVars, conn_items, conn_pos,
                   html_content, parsed>>

NextConcurrent ==
    \/ \E p \in Procs : Insert(p)
    \/ \E p \in Procs : InsertLocked(p)
    \/ \E p \in Procs : Commit(p)

SpecConcurrent == InitConcurrent /\ [][NextConcurrent]_vars

-----------------------------------------------------------------------------
(* Properties of the store and the pipeline *)

CountLink(rs, l) == Cardinality({i \in DOMAIN rs : rs[i].link = l})

\* a candidate whose INSERT can only fail on the uniqueness of its link
Storable(item) ==
    item.bindable /\ item.symbol # NULL /\ item.title # NULL /\ item.link # NULL

\* a save_news call has just returned, on an existing table
Saved == op = "save_news" /\ tableExists

\* the candidate at position i repeats a link: one already stored when the
\* call began, or one of an earlier candidate of the same batch
IsDuplicate(i) ==
    \/ arg[i].link \in Links(before)
    \/ \E j \in 1..(i - 1) : Storable(arg[j]) /\ arg[j].link = arg[i].link

Duplicates == Cardinality({i \in DOMAIN arg : IsDuplicate(i)})

\* the distinct links of the batch that were stored when the call began
StoredLinksInBatch == {arg[i].link : i \in DOMAIN arg} \cap Links(before)

IsPrefix(s, t) == Len(s) <= Len(t) /\ SubSeq(t, 1, Len(s)) = s

\* C1: in every reachable state no two rows of the table have the same link.
LinkUnique ==
    \A i, j \in DOMAIN rows : rows[i].link = rows[j].link => i = j

\* C1 witness: a batch that repeats a stored link was saved to a table that
\* holds two rows.
LinkUniqueWitness ==
    /\ Saved
    /\ Len(rows) >= 2
    /\ \E i \in DOMAIN arg : Storable(arg[i]) /\ arg[i].link \in Links(before)

\* C2: after save_news returns, every storable link of the batch is stored in
\* exactly one row, whether it occurs once or twice in the batch, and an
\* occurrence of a link that was stored before the call added no row for it.
IdempotentIngestion ==
    Saved =>
        \A i \in DOMAIN arg :
            Storable(arg[i]) =>
                /\ CountLink(rows, arg[i].link) = 1
                /\ arg[i].link \in Links(before) =>
                       CountLink(rows, arg[i].link) = CountLink(before, arg[i].link)

\* C2 witness: one batch held the same fresh link twice and one row was added.
IdempotentIngestionWitness ==
    /\ Saved
    /\ Len(arg) = 2
    /\ Storable(arg[1]) /\ Storable(arg[2])
    /\ arg[1].link = arg[2].link
    /\ arg[1].link \notin Links(before)
    /\ Len(rows) = Len(before) + 1

DedupRowCountAsClaimed ==
    (Saved /\ \A i \in DOMAIN arg : Storable(arg[i])) =>
        Len(rows) - Len(before) = Len(arg) - Cardinality(StoredLinksInBatch)

AppendIsolatesFailures ==
    Saved =>
        /\ raised = NoError
        /\ IsPrefix(before, rows)
        /\ \A i \in DOMAIN arg :
              (Storable(arg[i]) /\ ~IsDuplicate(i)) =>
                  \E k \in DOMAIN rows :
                      /\ k > Len(before)
                      /\ rows[k].link = arg[i].link
                      /\ rows[k].title = arg[i].title
                      /\ rows[k].symbol = arg[i].symbol
                      /\ rows[k].content = arg[i].content
        /\ \A k \in DOMAIN rows :
              k > Len(before) =>
                  \E i \in DOMAIN arg :
                      /\ Storable(arg[i]) /\ ~IsDuplicate(i)
                      /\ rows[k].link = arg[i].link
                      /\ rows[k].title = arg[i].title

\* C4 witness: the first candidate of a batch failed (a value sqlite3 cannot
\* bind, a missing link, or a stored link) and the second one was inserted.
AppendIsolatesFailuresWitness ==
    /\ Saved
    /\ Len(arg) = 2
    /\ ~Storable(arg[1]) \/ IsDuplicate(1)
    /\ Storable(arg[2]) /\ ~IsDuplicate(2)
    /\ Len(rows) = Len(before) + 1
    /\ rows[Len(rows)].link = arg[2].link

Last(s) == s[Len(s)]

\* C5: in every step of a sequence of pipeline runs, a row whose summary is
\* non-empty keeps its summary and is not the item summarize_text is called
\* for; so the summary is written non-empty at most once.
SummaryWrittenOnce ==
    [][\A i \in DOMAIN rows :
          ~IsUnsummarized(rows[i]) =>
              /\ i \in DOMAIN rows'
              /\ rows'[i] = rows[i]
              /\ Len(calls') = Len(calls) + 1 => Last(calls') # rows[i].id]_vars

\* C5 witness: a run summarized a later item while an item summarized by an
\* earlier run was left alone.
SummaryWrittenOnceWitness ==
    /\ pc = "done"
    /\ calls # <<>>
    /\ \E i \in DOMAIN rows :
          /\ ~IsUnsummarized(rows[i])
          /\ \A k \in DOMAIN calls : calls[k] # rows[i].id
          /\ \A k \in DOMAIN unsmarized_news : unsmarized_news[k].id # rows[i].id

RowOf(news_id) == CHOOSE r \in Range(rows) : r.id = news_id

\* C6 as claimed: when the enrich phase of a run has completed, the backlog
\* is empty and every item that was in it has a non-empty summary.
BacklogConverges ==
    pc = "done" =>
        /\ get_unsmarized_news(rows) = <<>>
        /\ \A k \in DOMAIN unsmarized_news :
              ~IsUnsummarized(RowOf(unsmarized_news[k].id))

\* C7 as claimed: no exception of the enrich phase reaches the caller of the
\* pipeline, and when the run ends summarize_text has been called and a
\* summary written for every item of the backlog.
EnrichIsolatesFailures ==
    /\ pc # "raised"
    /\ raised = NoError
    /\ pc = "done" =>
          /\ Len(calls) = Len(unsmarized_news)
          /\ \A k \in DOMAIN unsmarized_news :
                /\ calls[k] = unsmarized_news[k].id
                /\ RowOf(unsmarized_news[k].id).summary # NULL

-----------------------------------------------------------------------------
(* Properties of the date-range query and the report *)

Digit(c) == Ord(c) - Ord("0")

\* the number a string of decimal digits writes
RECURSIVE Number(_)
Number(s) ==
    IF Len(s) = 0 THEN 0
    ELSE 10 * Number(SubSeq(s, 1, Len(s) - 1)) + Digit(SubSeq(s, Len(s), Len(s)))

\* The calendar day and the second of that day a text 'YYYY-MM-DD' or
\* 'YYYY-MM-DD HH:MM:SS UTC' names.  Days are numbered so that a later day
\* has a larger number.
DayNumber(t) ==
    (Number(SubSeq(t, 1, 4)) * 12 + Number(SubSeq(t, 6, 7))) * 31
    + Number(SubSeq(t, 9, 10))
SecondOfDay(t) ==
    Number(SubSeq(t, 12, 13)) * 3600 + Number(SubSeq(t, 15, 16)) * 60
    + Number(SubSeq(t, 18, 19))

\* the instant (d1, s1) is not later than the instant (d2, s2)
NotLater(d1, s1, d2, s2) == d1 < d2 \/ (d1 = d2 /\ s1 <= s2)

\* published_at lies in [startDay 00:00:00, endDay 23:59:59]
LiesInRange(published_at, startDay, endDay) ==
    /\ published_at # NULL
    /\ NotLater(DayNumber(startDay), 0,
                DayNumber(published_at), SecondOfDay(published_at))
    /\ NotLater(DayNumber(published_at), SecondOfDay(published_at),
                DayNumber(endDay), 23 * 3600 + 59 * 60 + 59)

\* a get_news_by_date_range call has just returned
Queried == op = "get_news_by_date_range" /\ raised = NoError

InQueriedRange(row) == LiesInRange(row.published_at, arg[1], arg[2])
InQueriedRangeWithSymbol(row) == InQueriedRange(row) /\ row.symbol = arg[3]

TitleAndSummary(rs) ==
    [i \in DOMAIN rs |-> [title |-> rs[i].title, summary |-> rs[i].summary]]

\* C11: get_news_by_date_range(startDay, endDay) without a symbol returns
\* the title and summary of exactly the stored rows whose published_at lies
\* in [startDay 00:00:00, endDay 23:59:59], both ends included, one entry
\* for each such row.
DateRangeInclusive ==
    (Queried /\ arg[3] = NULL) =>
        news_summaries = TitleAndSummary(SelectSeq(rows, InQueriedRange))

\* C11 witness: a one-day query returned a row published at 23:59:59 of
\* that day and left out a row published at 00:00:00 of the next day.
DateRangeInclusiveWitness ==
    /\ Queried
    /\ arg = <<"2025-08-02", "2025-08-02", NULL>>
    /\ \E i, j \in DOMAIN rows :
          /\ rows[i].published_at = "2025-08-02 23:59:59 UTC"
          /\ rows[j].published_at = "2025-08-03 00:00:00 UTC"
          /\ news_summaries = TitleAndSummary(<<rows[i]>>)

\* C12: get_news_by_date_range with a symbol returns the title and summary
\* of exactly the in-range rows that have that symbol; in-range rows of any
\* other symbol are left out.
SymbolFilter ==
    (Queried /\ arg[3] # NULL) =>
        news_summaries =
            TitleAndSummary(SelectSeq(rows, InQueriedRangeWithSymbol))

\* C12 witness: with an AAPL row and a TSLA row in the same range, the query
\* for AAPL returned the AAPL row alone.
SymbolFilterWitness ==
    /\ Queried
    /\ arg[3] = "AAPL"
    /\ \E i, j \in DOMAIN rows :
          /\ InQueriedRange(rows[i]) /\ rows[i].symbol = "AAPL"
          /\ InQueriedRange(rows[j]) /\ rows[j].symbol = "TSLA"
          /\ news_summaries = TitleAndSummary(<<rows[i]>>)

-----------------------------------------------------------------------------
(* Properties of the connections *)

\* C13 as claimed: whenever an operation of the store has returned or
\* raised, no connection it opened is still open.
HandlesReleased == handles = 0

-----------------------------------------------------------------------------
(* Properties of the report *)

\* a create_daily_report call has just returned
Reported == op = "create_daily_report" /\ raised = NoError

\* C14: create_daily_report(date, symbol) reads the rows of that one day (and
\* symbol).  When there are none it returns the 'No news summaries found'
\* text and calls neither generate_daily_report nor summarize_text; when
\* there are some it calls generate_daily_report once, with the whole list
\* of {title, summary} entries that was read.
ReportGuardsEmptyResult ==
    Reported =>
        /\ news_summaries =
               get_news_by_date_range(rows, arg[1], arg[1], arg[2])
        /\ calls = <<>>
        /\ news_summaries = <<>> =>
               /\ report_calls = <<>>
               /\ IsPrefix("No news summaries found for ", report)
               /\ report = NoSummariesFound(arg[1], arg[2])
        /\ news_summaries # <<>> =>
               /\ report_calls = <<news_summaries>>
               /\ ~IsPrefix("No news summaries found for ", report)

\* C14 witness: a report over two stored items was generated with one call
\* that was handed both.
ReportGuardsEmptyResultWitness ==
    /\ Reported
    /\ Len(news_summaries) = 2
    /\ report_calls = <<news_summaries>>
    /\ Len(rows) = 2

-----------------------------------------------------------------------------
(* Properties of update_news_summary *)

\* an update_news_summary call on the table has just ended: one made
\* directly, with its arguments in arg, or the one of the last iteration of
\* a run
Updated == op = "update_news_summary" /\ tableExists
UpdatedId == IF pc = "returned" THEN arg[1] ELSE Last(updates)

\* C15: update_news_summary(id, s) changes the summary of the row with that
\* id and nothing else: that row keeps every other field, every other row is
\* as it was, no row is added or removed, and when no row has the id the
\* table is as it was and nothing is raised.
SetSummaryFrame ==
    Updated =>
        /\ raised = NoError
        /\ Len(rows) = Len(before)
        /\ \A i \in DOMAIN before :
              /\ rows[i] = [before[i] EXCEPT !.summary = rows[i].summary]
              /\ before[i].id # UpdatedId => rows[i] = before[i]
              /\ (before[i].id = UpdatedId /\ pc = "returned") =>
                     rows[i].summary = arg[2]
        /\ (\A i \in DOMAIN before : before[i].id # UpdatedId) =>
               rows = before

\* C15 witness: a direct call replaced the summary of one of two rows.
SetSummaryFrameWitness ==
    /\ Updated
    /\ pc = "returned"
    /\ Len(before) = 2
    /\ \E i \in DOMAIN before :
          /\ before[i].id = arg[1]
          /\ before[i].summary # arg[2]
          /\ rows[i].summary = arg[2]

-----------------------------------------------------------------------------
(* Properties of the enrich phase *)

\* a run of process_and_summarize_news has ended, by returning or by raising
RunEnded == pc \in {"done", "raised"}

BacklogIds == [k \in DOMAIN unsmarized_news |-> unsmarized_news[k].id]

\* C16 as claimed: when a run has ended, summarize_text has been called
\* exactly once for every item the backlog held when the enrich phase began,
\* each call followed by one update_news_summary for the same id, and for no
\* other item.
EnrichCoversBacklog ==
    RunEnded =>
        /\ Len(calls) = Len(unsmarized_news)
        /\ \A k \in DOMAIN calls : calls[k] = BacklogIds[k]
        /\ updates = calls

-----------------------------------------------------------------------------
(* Properties of get_unsmarized_news *)

\* a get_unsmarized_news call has just returned, to a direct caller or to
\* the pipeline
Listed == op = "get_unsmarized_news" /\ raised = NoError

\* C18: get_unsmarized_news returns the id, title and content of exactly the
\* rows whose summary is NULL or '', each once, in ascending id order; a row
\* with any other summary (a placeholder or an error marker too) is not in
\* the list.
ListsExactlyUnenriched ==
    Listed =>
        /\ \A k \in DOMAIN unsmarized_news :
              \E i \in DOMAIN rows :
                  /\ rows[i].summary = NULL \/ rows[i].summary = ""
                  /\ unsmarized_news[k] =
                         [id |-> rows[i].id, title |-> rows[i].title,
                          content |-> rows[i].content]
        /\ \A i \in DOMAIN rows :
              (rows[i].summary = NULL \/ rows[i].summary = "") =>
                  \E k \in DOMAIN unsmarized_news :
                      unsmarized_news[k].id = rows[i].id
        /\ \A k, l \in DOMAIN unsmarized_news :
              k < l => unsmarized_news[k].id < unsmarized_news[l].id

\* C18 witness: of two rows, one with an error marker as its summary and one
\* with the summary '', the list held the second alone.
ListsExactlyUnenrichedWitness ==
    /\ Listed
    /\ Len(unsmarized_news) = 1
    /\ \E i, j \in DOMAIN rows :
          /\ IsPrefix("Error Summary: ", rows[i].summary)
          /\ rows[j].summary = ""
          /\ unsmarized_news[1].id = rows[j].id

-----------------------------------------------------------------------------
(* Properties of the ingest phase *)

\* the ingest phase of a run has just saved its batch
Ingested == op = "save_news" /\ pc = "ingested"

\* C19: every row a run inserted has the symbol of the batch, whatever
\* symbol the raw item had, and the query for the day it was published and
\* that symbol returns it.
IngestStampsSymbol ==
    Ingested =>
        \A k \in DOMAIN rows :
            k > Len(before) =>
                /\ rows[k].symbol = batch_symbol
                /\ \A day \in Days :
                      LiesInRange(rows[k].published_at, day, day) =>
                          \E n \in DOMAIN get_news_by_date_range(rows, day, day,
                                                                batch_symbol) :
                              get_news_by_date_range(rows, day, day,
                                                     batch_symbol)[n] =
                                  [title |-> rows[k].title,
                                   summary |-> rows[k].summary]

\* C19 witness: a raw item that came with the symbol GOOG was inserted by a
\* run for TSLA, as a TSLA row.
IngestStampsSymbolWitness ==
    /\ Ingested
    /\ batch_symbol = "TSLA"
    /\ Len(rows) = Len(before) + 1
    /\ rows[Len(rows)].title = "Apple Q3 Earnings (updated)"
    /\ rows[Len(rows)].symbol = "TSLA"

-----------------------------------------------------------------------------
(* Properties of the order of a run *)

\* the ids of the rows without a summary, in table order
OutstandingIds ==
    LET Outstanding(row) == row.summary = NULL \/ row.summary = ""
        left == SelectSeq(rows, Outstanding)
    IN [k \in DOMAIN left |-> left[k].id]

\* C20: in every step of a sequence of runs: a run that starts with an empty
\* batch does not call save_news and adds no row; the step after the ingest
\* phase, of an empty batch as of any other, reads the whole backlog and
\* enters the enrich loop when there is one; every step of the loop calls
\* summarize_text for the next item of that backlog; and the backlog is read
\* only when the ingest phase has completed.
EmptyBatchStillEnriches ==
    [][/\ (pc = "idle" /\ pc' # "idle" /\ arg' = <<>>) =>
              /\ op' # "save_news"
              /\ rows' = rows
              /\ pc' = "ingested"
       /\ pc = "ingested" =>
              /\ op' = "get_unsmarized_news"
              /\ rows' = rows
              /\ Len(unsmarized_news') = Len(OutstandingIds)
              /\ \A k \in DOMAIN OutstandingIds :
                    unsmarized_news'[k].id = OutstandingIds[k]
              /\ pc' = IF OutstandingIds # <<>> THEN "enrich" ELSE "done"
       /\ pc = "enrich" =>
              /\ Len(calls') = Len(calls) + 1
              /\ Last(calls') = unsmarized_news[Len(calls')].id
       /\ op' = "get_unsmarized_news" => pc = "ingested"]_vars

\* C20 witness: a run with an empty batch has summarized the backlog earlier
\* runs left.
EmptyBatchStillEnrichesWitness ==
    /\ pc = "done"
    /\ arg = <<>>
    /\ saved_count = 0
    /\ calls # <<>>
    /\ updates = calls
    /\ Len(calls) = Len(rows)

-----------------------------------------------------------------------------
(* Properties of a repeated link *)

\* C21: when save_news is given a candidate whose link is stored, the row
\* that has the link is afterwards what it was before the call, in every
\* field (id, symbol, title, content, summary, source, published_at,
\* created_at), whatever the other fields of the candidate are.
FirstWriterWins ==
    Saved =>
        \A i \in DOMAIN arg :
            \A k \in DOMAIN before :
                before[k].link = arg[i].link =>
                    k \in DOMAIN rows /\ rows[k] = before[k]

\* C21 witness: an article whose row had a summary was saved again with
\* another title and content, and the row kept its title and its summary.
FirstWriterWinsWitness ==
    /\ Saved
    /\ \E i \in DOMAIN arg, k \in DOMAIN before :
          /\ before[k].link = arg[i].link
          /\ Storable(arg[i])
          /\ before[k].title # arg[i].title
          /\ before[k].content # arg[i].content
          /\ before[k].summary # NULL /\ before[k].summary # ""
          /\ rows[k] = before[k]

-----------------------------------------------------------------------------
(* Properties of concurrent save_news calls *)

\* both calls have returned
BothReturned == \A p \in Procs : ~conn_open[p]

\* the links of the storable items of the batch of call p
StorableLinks(p) ==
    {conn_items[p][i].link :
        i \in {j \in DOMAIN conn_items[p] : Storable(conn_items[p][j])}}

\* C22: whatever the interleaving of two save_news calls on one database,
\* no link is ever in two rows of the table, and when both calls have
\* returned every link that both of them were to store is in exactly one
\* row.
UniqueUnderInterleaving ==
    /\ \A l \in Links(rows) : CountLink(rows, l) = 1
    /\ BothReturned =>
          \A l \in StorableLinks("A") \cap StorableLinks("B") :
              CountLink(rows, l) = 1

\* C22 witness: the two calls ran interleaved on batches that share a link:
\* the link is in the table once, and an INSERT of the second call met the
\* write lock of the first (its other link was not saved).
UniqueUnderInterleavingWitness ==
    /\ BothReturned
    /\ \E l \in StorableLinks("A") \cap StorableLinks("B") :
          CountLink(rows, l) = 1
    /\ \E m \in StorableLinks("B") \ StorableLinks("A") :
          m \notin Links(rows)

-----------------------------------------------------------------------------
(* Properties of the extractor *)

Called == parsed.tier # -1

\* C8 as claimed: parse_news_html never raises, whatever the shape of the
\* structured-data blocks.
ExtractNeverRaises == parsed.raised = NoError

\* what tier 1 does with one script tag when it is the only one
Alone(script) == ScriptLoop(<<script>>, 1, JStr(""), <<>>)

\* C9 as claimed: a Tier-1 result is the title and the content of the first
\* script tag, in document order, that by itself yields both.
Tier1FromOneBlock ==
    (Called /\ parsed.raised = NoError /\ parsed.tier = 1) =>
        \E i \in DOMAIN html_content.scripts :
            /\ Alone(html_content.scripts[i]).status = "return"
            /\ \A j \in 1..(i - 1) :
                   Alone(html_content.scripts[j]).status # "return"
            /\ parsed.title = Alone(html_content.scripts[i]).title
            /\ parsed.content =
                   JoinLines(Alone(html_content.scripts[i]).content_paragraphs, 1)

\* the non-blank texts of the <p> tags of the content container
ContainerParagraphs ==
    IF html_content.body.present
    THEN BodyParagraphs(html_content.body.paragraphs, 1, <<>>)
    ELSE <<>>

\* C10 as claimed: a Tier-2 result has as content the newline-joined
\* paragraphs of the content container, or the placeholder when there are
\* none.
Tier2ContentFromContainer ==
    (Called /\ parsed.raised = NoError /\ parsed.tier = 2) =>
        parsed.content = IF ContainerParagraphs = <<>> THEN NoContent
                         ELSE JoinLines(ContainerParagraphs, 1)

\* the title tier 1 left behind when the fallback was entered
Tier1Title == ScriptLoop(html_content.scripts, 1, JStr(""), <<>>).title

\* C17 as claimed: a Tier-2 result for a document in which none of the three
\* h1 selectors matches, and for which tier 1 set no title, has the title
\* "No Title Found", whether or not paragraphs were collected.
Tier2TitleDefault ==
    (/\ Called /\ parsed.raised = NoError /\ parsed.tier = 2
     /\ TitleTag(html_content.h1s) = 0
     /\ ~JTruthy(Tier1Title)) =>
        parsed.title = JStr("No Title Found")

====
